---------------------------- MODULE Spec2Model ----------------------------
(***************************************************************************)
(* A model of gdrive_eraser.py: the retry wrapper (retry_api_call), the    *)
(* input validators, the paginated search (search_files), the folder path  *)
(* resolver (get_folder_path / get_file_folder_path), the batch mutator    *)
(* (delete_files) and the list / delete commands that compose them.        *)
(*                                                                         *)
(* Strings the code inspects character by character (names, extensions,    *)
(* exception texts, paths) are sequences of one-character strings.         *)
(* Identifiers, which the code only tests for emptiness and passes on,     *)
(* are plain strings ("" is a missing or empty identifier).                *)
(***************************************************************************)
EXTENDS Integers, Sequences, FiniteSets, TLC

VARIABLES
    pc,          \* position of the single thread of control
    log,         \* every remote call, sleep and prompt so far, in order
    attempt,     \* retry_api_call: the loop variable of the running call
    ret,         \* retry_api_call (standalone): how the call ended
    script,      \* standalone wrapped call: outcomes of its next invocations
    extension,   \* search_files / commands: the extension argument
    norm_extension,  \* search_files: extension after validate_extension
    min_size_mb, \* search_files / commands: the size argument
    listing,     \* the remote listing served to files().list
    results,     \* search_files: records accumulated from the pages
    page_token,  \* search_files: continuation token (0 is None)
    page_count,  \* search_files: pages consumed
    found,       \* search_files: the returned sequence
    warned,      \* search_files: the page-limit warning was printed
    files,       \* delete_files: the input list
    force,       \* delete_files / delete: skip the confirmation
    move_to_trash,  \* delete_files: trash (TRUE) or permanent delete
    valid_files,    \* delete_files: records with both id and name
    idx,            \* delete_files: 1-based index of the record in hand
    deleted_count,  \* delete_files
    failed_count,   \* delete_files
    failed_files,   \* delete_files: names of the failed records
    command,     \* the CLI command run: "list", "delete" or "none"
    dry_run,     \* delete: --dry-run
    permanent,   \* delete: --permanent
    output_json, \* list: --json
    graph,       \* the remote folder graph served to files().get
    path_cache,  \* the path cache of the running resolution pass
    stack,       \* get_folder_path: the frames waiting for a parent path
    parent_path, \* get_folder_path: the path returned to the waiting frame
    todo,        \* display / export: records still to annotate
    paths        \* display / export: the folder paths obtained so far

vars == <<pc, log, attempt, ret, script, extension, norm_extension, min_size_mb,
          listing,
          results, page_token, page_count, found, warned, files, force,
          move_to_trash, valid_files, idx, deleted_count, failed_count,
          failed_files, command, dry_run, permanent, output_json, graph,
          path_cache, stack, parent_path, todo, paths>>

---------------------------------------------------------------------------
(* Text: str.lower, str.endswith, str.lstrip, substring test, str.isalnum  *)

Letters == {"a", "b", "c", "d", "e", "f", "i", "m", "o", "p", "t", "u", "x",
            "D", "F", "P", "T"}
Digits == {"4"}

LowerChar(c) ==
    CASE c = "D" -> "d"
      [] c = "F" -> "f"
      [] c = "P" -> "p"
      [] c = "T" -> "t"
      [] OTHER -> c

Lower(s) == [i \in 1..Len(s) |-> LowerChar(s[i])]

EndsWithAnywhere(s, suffix) ==
    \E i \in 1..(Len(s) - Len(suffix) + 1) :
        SubSeq(s, i, i + Len(suffix) - 1) = suffix

EndsWith(s, suffix) ==
    /\ Len(suffix) <= Len(s)
    /\ SubSeq(s, Len(s) - Len(suffix) + 1, Len(s)) = suffix

Contains(s, sub) ==
    \E i \in 1..(Len(s) - Len(sub) + 1) : SubSeq(s, i, i + Len(sub) - 1) = sub

RECURSIVE LStripDots(_)
LStripDots(s) ==
    IF s # <<>> /\ Head(s) = "." THEN LStripDots(Tail(s)) ELSE s

Without(s, c) == SelectSeq(s, LAMBDA x : x # c)

IsAlnum(s) == s # <<>> /\ \A i \in 1..Len(s) : s[i] \in Letters \cup Digits

---------------------------------------------------------------------------
(* retry_api_call                                                          *)

MaxRetries == 3
BackoffFactor == 1

\* What one invocation of a wrapped remote call can do: return, raise an
\* HttpError carrying a status, or raise another exception carrying a text.
Ok == [kind |-> "ok", status |-> 200, msg |-> <<>>]
Http(status) == [kind |-> "http", status |-> status, msg |-> <<>>]
Exc(msg) == [kind |-> "exc", status |-> 0, msg |-> msg]

\* str(e) of three exceptions: "Timeout", "timed out" and "boom".
MsgTimeout == <<"T", "i", "m", "e", "o", "u", "t">>
MsgTimedOut == <<"t", "i", "m", "e", "d", " ", "o", "u", "t">>
MsgBoom == <<"b", "o", "o", "m">>

TimeoutWord == <<"t", "i", "m", "e", "o", "u", "t">>

RetryableStatusAnd404 == {429, 500, 502, 503, 504, 404}

RetryableStatus == {429, 500, 502, 503, 504}

RECURSIVE Pow2(_)
Pow2(n) == IF n <= 0 THEN 1 ELSE 2 * Pow2(n - 1)

WaitTimeConstant(att) == BackoffFactor

WaitTime(att) == BackoffFactor * Pow2(att)

RetryDecisionOneMore(att, out) ==
    CASE out.kind = "ok" -> "return"
      [] out.kind = "http" ->
            IF out.status \in RetryableStatus /\ att < MaxRetries
            THEN "retry" ELSE "raise"
      [] OTHER ->
            IF att < MaxRetries /\ Contains(Lower(out.msg), TimeoutWord)
            THEN "retry" ELSE "raise"

\* The decision retry_api_call takes on the outcome of attempt att:
\* "return", "retry" (sleep, then the next attempt) or "raise".
RetryDecision(att, out) ==
    CASE out.kind = "ok" -> "return"
      [] out.kind = "http" ->
            IF out.status \in RetryableStatus /\ att < MaxRetries - 1
            THEN "retry" ELSE "raise"
      [] OTHER ->
            IF att < MaxRetries - 1 /\ Contains(Lower(out.msg), TimeoutWord)
            THEN "retry" ELSE "raise"

Call(op, id, n, out) == [op |-> op, id |-> id, n |-> n, out |-> out]
Sleep(att) == Call("sleep", "", WaitTime(att), Ok)

\* The log after one attempt of a wrapped call: the call, and the sleep
\* when the attempt is retried.
Attempted(l, op, id, n, att, out) ==
    IF RetryDecision(att, out) = "retry"
    THEN l \o <<Call(op, id, n, out), Sleep(att)>>
    ELSE Append(l, Call(op, id, n, out))

\* In a run of a command, the remote fails at most MaxFaults times.
MaxFaults == 1

Faults(l) == Cardinality({i \in DOMAIN l : l[i].out # Ok})
FaultAllowed(out) ==
    IF out = Ok \/ command = "none" THEN TRUE ELSE Faults(log) < MaxFaults

\* The standalone wrapped call: its k-th invocation does script[k], and
\* returns once the script is used up.
ScriptedOutcome(k) == IF k <= Len(script) THEN script[k] ELSE Ok

NoRet == [kind |-> "none", out |-> Ok]

---------------------------------------------------------------------------
(* validate_extension, validate_size                                       *)

NoSize == [kind |-> "none", val |-> 0]
Num(n) == [kind |-> "num", val |-> n]
NaN == [kind |-> "nan", val |-> 0]
Inf == [kind |-> "inf", val |-> 0]

MaxExtensionLen == 10
MaxSizeMB == 1024 * 1024
BytesPerMB == 1024 * 1024

Accept(v) == [ok |-> TRUE, val |-> v]
Reject(v) == [ok |-> FALSE, val |-> v]

validate_extension(ext) ==
    IF ext = <<>> THEN Accept(ext)
    ELSE LET e == LStripDots(ext)
         IN IF ~IsAlnum(Without(Without(e, "_"), "-")) THEN Reject(e)
            ELSE IF Len(e) > MaxExtensionLen THEN Reject(e)
            ELSE Accept(e)

\* Comparisons of a float with a number: every comparison with nan is False.
FloatLE(x, n) == x.kind = "num" /\ x.val <= n
FloatGT(x, n) == x.kind = "inf" \/ (x.kind = "num" /\ x.val > n)

validate_size(size) ==
    IF size.kind = "none" THEN Accept(size)
    ELSE IF FloatLE(size, 0) THEN Reject(size)
    ELSE IF FloatGT(size, MaxSizeMB) THEN Reject(size)
    ELSE Accept(size)

---------------------------------------------------------------------------
(* File records and the remote listing                                     *)

Absent == [kind |-> "absent", val |-> 0]
Bytes(n) == [kind |-> "num", val |-> n]
BadSize == [kind |-> "bad", val |-> 0]

File(id, name, size, parents) ==
    [id |-> id, name |-> name, size |-> size, parents |-> parents]

NameAPdf == <<"a", ".", "p", "d", "f">>
NameBPdfTxt == <<"b", ".", "p", "d", "f", ".", "t", "x", "t">>
NameCPdf == <<"c", ".", "p", "d", "f">>
NameDUpper == <<"d", ".", "P", "D", "F">>
NameETxt == <<"e", ".", "t", "x", "t">>
NamePdf == <<"p", "d", "f">>

RecA == File("fA", NameAPdf, Bytes(200 * BytesPerMB), <<"n2">>)
RecB == File("fB", NameBPdfTxt, Bytes(500 * BytesPerMB), <<"n1">>)
RecC == File("fC", NameCPdf, Bytes(50 * BytesPerMB), <<>>)
RecD == File("fD", NameDUpper, Absent, <<"n2", "n3">>)
RecE == File("fE", NameETxt, BadSize, <<"n3">>)
RecF == File("fF", NamePdf, Bytes(100 * BytesPerMB), <<"n1">>)
RecG == File("fG", NameCPdf, Bytes(100 * BytesPerMB - 1), <<"n1">>)
RecNoId == File("", NameAPdf, Bytes(200 * BytesPerMB), <<"n1">>)
RecNoName == File("fN", <<>>, Bytes(200 * BytesPerMB), <<"n1">>)

\* The remote listing: page k (from 1) holds cycle[((k - 1) % Len(cycle)) + 1]
\* and carries a continuation token (k + 1) unless it is the last of `total`
\* pages; an endless listing always carries one.
Listing(cycle, total, endless) ==
    [cycle |-> cycle, total |-> total, endless |-> endless]

PageFiles(l, k) == l.cycle[((k - 1) % Len(l.cycle)) + 1]
NextPageToken(l, k) == IF l.endless \/ k < l.total THEN k + 1 ELSE 0

---------------------------------------------------------------------------
(* search_files                                                            *)

OnePageMore == 100 + 1

max_pages == 100

\* size_mb < min_size_mb, with size_mb = size_bytes / (1024 * 1024) and
\* min_size_mb a whole number of MB (or nan).
SizeBelow(size_bytes, min) ==
    min.kind = "num" /\ size_bytes \div BytesPerMB < min.val

KeepSizeless(f, ext, min) ==
    /\ f.id # "" /\ f.name # <<>>
    /\ ext # <<>> => EndsWith(Lower(f.name), <<".">> \o Lower(ext))
    /\ min.kind # "none" =>
          \/ f.size.kind = "absent"
          \/ f.size.kind = "num" /\ ~SizeBelow(f.size.val, min)

\* The post-process filter on one record.
Keep(f, ext, min) ==
    /\ f.id # "" /\ f.name # <<>>
    /\ ext # <<>> => EndsWith(Lower(f.name), <<".">> \o Lower(ext))
    /\ min.kind # "none" =>
          /\ f.size.kind = "num"
          /\ ~SizeBelow(f.size.val, min)

PostFilter(rs, ext, min) == SelectSeq(rs, LAMBDA f : Keep(f, ext, min))

\* What a files().list request is let to do in the model.
ListOutcomes == {Ok, Http(503), Http(403), Exc(MsgTimeout)}

\* Page requests after this many consumed pages always succeed.
MaxFaultPage == 2

searchVars == <<extension, norm_extension, min_size_mb, listing, results, page_token,
                page_count, found, warned>>
batchVars == <<files, force, move_to_trash, valid_files, idx, deleted_count,
               failed_count, failed_files>>
cmdVars == <<command, dry_run, permanent, output_json>>
pathVars == <<graph, path_cache, stack, parent_path, todo, paths>>

\* Lines 247-270: validation, then the loop's initial state.  validate_size
\* returns its argument, so min_size_mb keeps its value.
SearchValidate ==
    /\ pc = "search_start"
    /\ LET e == IF extension # <<>> THEN validate_extension(extension)
                ELSE Accept(extension)
           m == IF min_size_mb.kind # "none" THEN validate_size(min_size_mb)
                ELSE Accept(min_size_mb)
       IN IF e.ok /\ m.ok
          THEN /\ norm_extension' = e.val
               /\ pc' = "search_page"
               /\ UNCHANGED found
          ELSE /\ found' = <<>>
               /\ pc' = "search_done"
               /\ UNCHANGED norm_extension
    /\ results' = <<>>
    /\ page_token' = 0
    /\ page_count' = 0
    /\ attempt' = 0
    /\ UNCHANGED <<log, ret, script, extension, min_size_mb, listing, warned>>
    /\ UNCHANGED <<batchVars, cmdVars, pathVars>>

\* Lines 303-340: the warning and the post-process filter, once the loop
\* has ended with `rs` accumulated and `count` pages consumed.
SearchFinish(rs, count) ==
    /\ warned' = (count >= max_pages)
    /\ found' = PostFilter(rs, norm_extension, min_size_mb)
    /\ pc' = "search_done"

SearchHandlerHttpOnly(out) == IF out.kind = "http" THEN "inner" ELSE "none"

\* The handler that catches what retry_api_call raises out of the page
\* request: the loop's `except HttpError` (line 294), else the function's
\* `except Exception` (line 345).  Both return [].
SearchHandler(out) == IF out.kind = "http" THEN "inner" ELSE "outer"

\* Lines 272-301 and 345-347: one attempt of the page request inside
\* retry_api_call, and what the loop does with its outcome.
SearchPage ==
    /\ pc = "search_page"
    /\ \E out \in ListOutcomes :
         LET k == IF page_token = 0 THEN 1 ELSE page_token
             decision == RetryDecision(attempt, out)
             fs == PageFiles(listing, k)
             token == NextPageToken(listing, k)
         IN /\ IF out = Ok THEN TRUE ELSE page_count < MaxFaultPage
            /\ FaultAllowed(out)
            /\ log' = Attempted(log, "list", "", k, attempt, out)
            /\ CASE decision = "retry" ->
                      /\ attempt' = attempt + 1
                      /\ UNCHANGED <<pc, results, page_token, page_count,
                                     found, warned>>
                 [] decision = "raise" ->
                      /\ IF SearchHandler(out) \in {"inner", "outer"}
                         THEN found' = <<>> /\ pc' = "search_done"
                         ELSE pc' = "search_raised" /\ UNCHANGED found
                      /\ UNCHANGED <<attempt, results, page_token,
                                     page_count, warned>>
                 [] OTHER ->
                      /\ attempt' = 0
                      /\ IF fs = <<>>
                         THEN /\ SearchFinish(results, page_count)
                              /\ UNCHANGED <<results, page_token, page_count>>
                         ELSE /\ results' = results \o fs
                              /\ page_count' = page_count + 1
                              /\ page_token' = token
                              /\ IF token # 0 /\ page_count + 1 < max_pages
                                 THEN UNCHANGED <<pc, found, warned>>
                                 ELSE SearchFinish(results \o fs,
                                                   page_count + 1)
    /\ UNCHANGED <<ret, script, extension, norm_extension, min_size_mb,
                   listing>>
    /\ UNCHANGED <<batchVars, cmdVars, pathVars>>

---------------------------------------------------------------------------
(* retry_api_call on its own, around the scripted call                     *)

RetryApiCall ==
    /\ pc = "retry"
    /\ LET out == ScriptedOutcome(attempt + 1)
           decision == RetryDecision(attempt, out)
       IN /\ log' = Attempted(log, "call", "", attempt, attempt, out)
          /\ IF decision = "retry"
             THEN /\ attempt' = attempt + 1
                  /\ UNCHANGED <<pc, ret>>
             ELSE /\ ret' = [kind |-> decision, out |-> out]
                  /\ pc' = "retry_done"
                  /\ UNCHANGED attempt
    /\ UNCHANGED <<script, searchVars, batchVars, cmdVars, pathVars>>

---------------------------------------------------------------------------
(* delete_files                                                            *)

\* What a files().update / files().delete request is let to do in the model.
MutateOutcomes == {Ok, Http(503), Http(404), Exc(MsgBoom)}

ConfirmAnswers == {"yes", "no", "interrupt"}

HasId(f) == f.id # ""

\* Line 441: a record is valid when it has both an id and a name.
HasIdAndName(f) == f.id # "" /\ f.name # <<>>

RecordFromTheEnd(vs, i) == vs[Len(vs) + 1 - i]

\* Line 472: the i-th record (from 1) the loop takes from valid_files.
RecordInHand(vs, i) == vs[i]

AfterConfirmInterruptIgnored(answer) ==
    IF answer = "no" THEN "batch_done" ELSE "batch_loop"

\* Lines 457-463: only an affirmative answer lets the batch start.
AfterConfirm(answer) == IF answer = "yes" THEN "batch_loop" ELSE "batch_done"

TallyUnnamedException(t, decision, out, name) ==
    IF decision = "return"
    THEN [t EXCEPT !.deleted = @ + 1]
    ELSE IF out.kind = "http"
    THEN [t EXCEPT !.failed = @ + 1, !.names = Append(@, name)]
    ELSE [t EXCEPT !.failed = @ + 1]

\* Lines 488 and 491-509: the counters after the mutation of the record
\* named `name` ended as `decision`; both handlers count and name it.
Tally(t, decision, out, name) ==
    IF decision = "return"
    THEN [t EXCEPT !.deleted = @ + 1]
    ELSE IF out.kind = "http"
    THEN [t EXCEPT !.failed = @ + 1, !.names = Append(@, name)]
    ELSE [t EXCEPT !.failed = @ + 1, !.names = Append(@, name)]

MutationOpAlwaysTrash(trash) == "update"

MutationOp(trash) == IF trash THEN "update" ELSE "delete"

\* Lines 434-450 and 465-467: the empty-list return, the validation of the
\* list, and the counters of the loop.
DeleteStart ==
    /\ pc = "batch_start"
    /\ LET valid == SelectSeq(files, HasIdAndName)
       IN /\ valid_files' = valid
          /\ pc' = IF files = <<>> \/ valid = <<>> THEN "batch_done"
                   ELSE IF ~force THEN "batch_confirm"
                   ELSE "batch_loop"
    /\ idx' = 1
    /\ attempt' = 0
    /\ deleted_count' = 0
    /\ failed_count' = 0
    /\ failed_files' = <<>>
    /\ UNCHANGED <<log, ret, script, files, force, move_to_trash>>
    /\ UNCHANGED <<searchVars, cmdVars, pathVars>>

\* Lines 452-463: the confirmation prompt; a decline and an interrupt return.
DeleteConfirm ==
    /\ pc = "batch_confirm"
    /\ \E answer \in ConfirmAnswers :
         /\ log' = Append(log, Call("confirm", answer, 0, Ok))
         /\ pc' = AfterConfirm(answer)
    /\ UNCHANGED <<attempt, ret, script>>
    /\ UNCHANGED <<searchVars, batchVars, cmdVars, pathVars>>

\* Lines 472-509: one attempt of the mutation request of valid_files[idx]
\* inside retry_api_call, and the accounting of its outcome.  The wrapped
\* call is service.files().update or .delete; delete_files applies no
\* execute() to what it returns, so the log gets no "execute" entry here.
Mutate ==
    /\ pc = "batch_loop"
    /\ \E out \in MutateOutcomes :
         LET f == RecordInHand(valid_files, idx)
             decision == RetryDecision(attempt, out)
             t == Tally([deleted |-> deleted_count, failed |-> failed_count,
                         names |-> failed_files], decision, out, f.name)
         IN /\ FaultAllowed(out)
            /\ log' = Attempted(log, MutationOp(move_to_trash), f.id, idx,
                                attempt, out)
            /\ IF decision = "retry"
               THEN /\ attempt' = attempt + 1
                    /\ UNCHANGED <<pc, idx, deleted_count, failed_count,
                                   failed_files>>
               ELSE /\ attempt' = 0
                    /\ deleted_count' = t.deleted
                    /\ failed_count' = t.failed
                    /\ failed_files' = t.names
                    /\ IF idx = Len(valid_files)
                       THEN pc' = "batch_done" /\ UNCHANGED idx
                       ELSE idx' = idx + 1 /\ UNCHANGED pc
    /\ UNCHANGED <<ret, script, files, force, move_to_trash, valid_files>>
    /\ UNCHANGED <<searchVars, cmdVars, pathVars>>

---------------------------------------------------------------------------
(* get_folder_path, get_file_folder_path and the annotation loops          *)

Slash == <<"/">>
UnknownPath == <<"/", "U", "n", "k", "n", "o", "w", "n">>

Node(name, parents) == [name |-> name, parents |-> parents]
Frame(id, name) == [id |-> id, name |-> name]

\* What a files().get request, and its execute(), are let to do in the model.
GetOutcomes == {Ok, Http(503), Http(404), Exc(MsgBoom)}

\* Lines 206-210: the path of a node from its parent's path and its name.
JoinPathNoRootCase(parent, file_name) == parent \o Slash \o file_name

JoinPath(parent, file_name) ==
    IF parent = Slash THEN Slash \o file_name
    ELSE parent \o Slash \o file_name

\* path_cache = {} (lines 175-176, 396, 570).
NoCache == [n \in {} |-> <<>>]

CachePut(cache, id, path) ==
    [n \in DOMAIN cache \cup {id} |-> IF n = id THEN path ELSE cache[n]]

\* The frames one resolution may stack before the interpreter refuses the
\* next recursive call (RecursionError).
MaxDepth == 4

\* str(e) of the RecursionError.
MsgDepth == <<"d", "e", "p", "t", "h">>

PathHandlerHttpOnly(out) == IF out.kind = "http" THEN "http" ELSE "none"

\* The handler that catches what the body of get_folder_path raises:
\* `except HttpError` (line 216), else `except Exception` (line 224).
PathHandler(out) == IF out.kind = "http" THEN "http" ELSE "other"

\* The running get_folder_path returns v, leaving the cache as `cache`: to
\* the frame waiting below it at line 204, or, from the outermost frame, to
\* get_file_folder_path (line 242) and the annotation loop.
ReturnPath(v, cache) ==
    /\ path_cache' = cache
    /\ IF Len(stack) = 1
       THEN /\ paths' = Append(paths, IF v = <<>> THEN Slash ELSE v)
            /\ todo' = Tail(todo)
            /\ stack' = <<>>
            /\ parent_path' = <<>>
            /\ pc' = "display"
       ELSE /\ stack' = SubSeq(stack, 1, Len(stack) - 1)
            /\ parent_path' = v
            /\ pc' = "path_resume"
            /\ UNCHANGED <<todo, paths>>

\* Lines 216-226: the body raised `out`; both handlers return "/Unknown"
\* and leave the cache alone.
PathFail(out) ==
    IF PathHandler(out) \in {"http", "other"}
    THEN ReturnPath(UnknownPath, path_cache)
    ELSE /\ pc' = "path_raised"
         /\ UNCHANGED <<path_cache, stack, parent_path, todo, paths>>

\* Lines 400-425 (display_files) and 571-572 (list --json): the next record
\* to annotate; get_file_folder_path, lines 234-240.  The log notes each
\* call of get_folder_path it makes.
DisplayNext ==
    /\ pc = "display"
    /\ IF todo = <<>>
       THEN /\ pc' = "display_done"
            /\ UNCHANGED <<log, stack, todo, paths>>
       ELSE IF Head(todo).parents = <<>>
       THEN /\ paths' = Append(paths, Slash)
            /\ todo' = Tail(todo)
            /\ UNCHANGED <<log, pc, stack>>
       ELSE /\ stack' = <<Frame(Head(todo).parents[1], <<>>)>>
            /\ log' = Append(log, Call("resolve", Head(todo).parents[1], 0,
                                       Ok))
            /\ pc' = "path_call"
            /\ UNCHANGED <<todo, paths>>
    /\ UNCHANGED <<attempt, ret, script, graph, path_cache, parent_path>>
    /\ UNCHANGED <<searchVars, batchVars, cmdVars>>

\* Lines 175-185: the cache hit and the identifier check.
PathEnter ==
    /\ pc = "path_call"
    /\ LET file_id == stack[Len(stack)].id
       IN IF file_id \in DOMAIN path_cache
          THEN ReturnPath(path_cache[file_id], path_cache)
          ELSE IF file_id = ""
          THEN ReturnPath(UnknownPath, path_cache)
          ELSE /\ pc' = "path_fetch"
               /\ UNCHANGED <<path_cache, stack, parent_path, todo, paths>>
    /\ attempt' = 0
    /\ UNCHANGED <<log, ret, script, graph>>
    /\ UNCHANGED <<searchVars, batchVars, cmdVars>>

\* Lines 189-192: one attempt of service.files().get inside retry_api_call.
PathFetch ==
    /\ pc = "path_fetch"
    /\ \E out \in GetOutcomes :
         LET file_id == stack[Len(stack)].id
             decision == RetryDecision(attempt, out)
         IN /\ FaultAllowed(out)
            /\ log' = Attempted(log, "get", file_id, 0, attempt, out)
            /\ CASE decision = "retry" ->
                      /\ attempt' = attempt + 1
                      /\ UNCHANGED <<pc, path_cache, stack, parent_path,
                                     todo, paths>>
                 [] decision = "raise" ->
                      /\ PathFail(out)
                      /\ UNCHANGED attempt
                 [] OTHER ->
                      /\ pc' = "path_execute"
                      /\ UNCHANGED <<attempt, path_cache, stack, parent_path,
                                     todo, paths>>
    /\ UNCHANGED <<ret, script, graph>>
    /\ UNCHANGED <<searchVars, batchVars, cmdVars>>

\* Lines 193-204 and 216-226: execute() of the request, outside
\* retry_api_call, then the root case or the recursive call for the first
\* parent, which the interpreter refuses beyond MaxDepth frames.  A node the
\* remote does not hold is a 404.
PathExecute ==
    /\ pc = "path_execute"
    /\ \E out \in GetOutcomes :
         LET file_id == stack[Len(stack)].id
         IN /\ IF file_id \in DOMAIN graph THEN FaultAllowed(out)
               ELSE out = Http(404)
            /\ log' = Append(log, Call("execute", file_id, 0, out))
            /\ IF out # Ok
               THEN PathFail(out)
               ELSE IF graph[file_id].parents = <<>>
               THEN ReturnPath(Slash, CachePut(path_cache, file_id, Slash))
               ELSE IF Len(stack) >= MaxDepth
               THEN PathFail(Exc(MsgDepth))
               ELSE /\ stack' = Append(
                         [stack EXCEPT ![Len(stack)].name =
                                           graph[file_id].name],
                         Frame(graph[file_id].parents[1], <<>>))
                    /\ pc' = "path_call"
                    /\ UNCHANGED <<path_cache, parent_path, todo, paths>>
    /\ UNCHANGED <<attempt, ret, script, graph>>
    /\ UNCHANGED <<searchVars, batchVars, cmdVars>>

\* Lines 204-214: the recursive call has returned parent_path to the frame
\* on top, which builds its own path, stores it in the cache and returns it.
PathResume ==
    /\ pc = "path_resume"
    /\ LET fr == stack[Len(stack)]
           path == JoinPath(parent_path, fr.name)
       IN ReturnPath(path, CachePut(path_cache, fr.id, path))
    /\ UNCHANGED <<log, attempt, ret, script, graph>>
    /\ UNCHANGED <<searchVars, batchVars, cmdVars>>

---------------------------------------------------------------------------
(* The list and delete commands                                            *)

\* What authenticate() does: it returns the service, or exits the process.
AuthOutcomes == {Ok, Http(401)}

NoFilterNeedsBoth(e, m) == FALSE

\* Lines 534 and 602: neither an extension nor a size was given.
NoFilter(e, m) == e = <<>> /\ m.kind = "none"

DeletesAfterDisplayWhenForced == command = "delete" /\ (~dry_run \/ force)

\* Lines 655-662: delete_files runs unless --dry-run was given.
DeletesAfterDisplay == command = "delete" /\ ~dry_run

\* Lines 534-550 (list) and 602-631 (delete): the filter guard, the
\* validation of the arguments and the way to the permanent-delete prompt.
CmdValidate ==
    /\ pc = "cmd_start"
    /\ IF NoFilter(extension, min_size_mb)
       THEN pc' = "cmd_done" /\ UNCHANGED extension
       ELSE LET e == IF extension # <<>> THEN validate_extension(extension)
                     ELSE Accept(extension)
                m == IF min_size_mb.kind # "none"
                     THEN validate_size(min_size_mb)
                     ELSE Accept(min_size_mb)
            IN IF ~(e.ok /\ m.ok)
               THEN pc' = "cmd_done" /\ UNCHANGED extension
               ELSE /\ extension' = e.val
                    /\ pc' = IF /\ command = "delete"
                                /\ permanent /\ ~dry_run /\ ~force
                             THEN "cmd_confirm" ELSE "cmd_auth"
    /\ UNCHANGED <<log, attempt, ret, script, norm_extension, min_size_mb,
                   listing, results, page_token, page_count, found, warned>>
    /\ UNCHANGED <<batchVars, cmdVars, pathVars>>

\* Lines 622-631: the prompt before a permanent deletion.
CmdConfirmPermanent ==
    /\ pc = "cmd_confirm"
    /\ \E answer \in ConfirmAnswers :
         /\ log' = Append(log, Call("confirm_permanent", answer, 0, Ok))
         /\ pc' = IF answer = "yes" THEN "cmd_auth" ELSE "cmd_done"
    /\ UNCHANGED <<attempt, ret, script>>
    /\ UNCHANGED <<searchVars, batchVars, cmdVars, pathVars>>

\* Lines 552-555 and 633-636: authenticate(); SystemExit ends the command.
CmdAuthenticate ==
    /\ pc = "cmd_auth"
    /\ \E out \in AuthOutcomes :
         /\ log' = Append(log, Call("auth", "", 0, out))
         /\ pc' = IF out = Ok THEN "search_start" ELSE "cmd_done"
    /\ UNCHANGED <<attempt, ret, script>>
    /\ UNCHANGED <<searchVars, batchVars, cmdVars, pathVars>>

\* Lines 566-591 and 647-661: search_files has returned; delete stops on an
\* empty result, otherwise the records are annotated with a fresh cache.
CmdAfterSearch ==
    /\ pc = "search_done"
    /\ command # "none"
    /\ IF command = "delete" /\ found = <<>>
       THEN pc' = "cmd_done" /\ UNCHANGED todo
       ELSE pc' = "display" /\ todo' = found
    /\ path_cache' = NoCache
    /\ paths' = <<>>
    /\ UNCHANGED <<log, attempt, ret, script, graph, stack, parent_path>>
    /\ UNCHANGED <<searchVars, batchVars, cmdVars>>

\* Lines 653-662: after the display, delete without --dry-run calls
\* delete_files(service, files, force, move_to_trash).
CmdAfterDisplay ==
    /\ pc = "display_done"
    /\ command # "none"
    /\ IF DeletesAfterDisplay
       THEN /\ files' = found
            /\ move_to_trash' = ~permanent
            /\ pc' = "batch_start"
       ELSE /\ pc' = "cmd_done"
            /\ UNCHANGED <<files, move_to_trash>>
    /\ UNCHANGED <<log, attempt, ret, script, force, valid_files, idx,
                   deleted_count, failed_count, failed_files>>
    /\ UNCHANGED <<searchVars, cmdVars, pathVars>>

---------------------------------------------------------------------------
(* Initial states                                                          *)

RECURSIVE SeqsUpTo(_, _)
SeqsUpTo(S, n) ==
    IF n = 0 THEN {<<>>}
    ELSE LET shorter == SeqsUpTo(S, n - 1)
         IN shorter \cup {Append(q, x) : q \in shorter, x \in S}

NoListing == Listing(<<<<>>>>, 1, FALSE)
NoGraph == [n \in {} |-> Node(<<>>, <<>>)]

CoreIdle == log = <<>> /\ attempt = 0
RetryIdle == ret = NoRet /\ script = <<>>
SearchIdle ==
    /\ extension = <<>> /\ norm_extension = <<>> /\ min_size_mb = NoSize
    /\ listing = NoListing /\ results = <<>> /\ page_token = 0
    /\ page_count = 0 /\ found = <<>> /\ warned = FALSE
BatchIdle ==
    /\ files = <<>> /\ force = FALSE /\ move_to_trash = TRUE
    /\ valid_files = <<>> /\ idx = 0 /\ deleted_count = 0
    /\ failed_count = 0 /\ failed_files = <<>>
CmdIdle ==
    /\ command = "none" /\ dry_run = FALSE /\ permanent = FALSE
    /\ output_json = FALSE
PathIdle ==
    /\ graph = NoGraph /\ path_cache = NoCache /\ stack = <<>>
    /\ parent_path = <<>> /\ todo = <<>> /\ paths = <<>>

\* retry_api_call: every script of the wrapped call up to MaxScript outcomes.
MaxScript == 3

ScriptOutcomes ==
    {Ok, Http(429), Http(500), Http(502), Http(503), Http(504), Http(400),
     Http(401), Http(403), Http(404), Exc(MsgTimeout), Exc(MsgTimedOut),
     Exc(MsgBoom)}

InitRetry ==
    /\ pc = "retry"
    /\ CoreIdle
    /\ ret = NoRet
    /\ script \in SeqsUpTo(ScriptOutcomes, MaxScript)
    /\ SearchIdle /\ BatchIdle /\ CmdIdle /\ PathIdle

NextRetry == RetryApiCall

SpecRetry == InitRetry /\ [][NextRetry]_vars

\* delete_files: every list of up to MaxFiles records, both modes, with and
\* without the confirmation.
MaxFiles == 2

BatchRecords == {RecA, RecC, RecNoId, RecNoName}

InitBatch ==
    /\ pc = "batch_start"
    /\ CoreIdle /\ RetryIdle /\ SearchIdle /\ CmdIdle /\ PathIdle
    /\ files \in SeqsUpTo(BatchRecords, MaxFiles)
    /\ force \in BOOLEAN
    /\ move_to_trash \in BOOLEAN
    /\ valid_files = <<>> /\ idx = 0 /\ deleted_count = 0
    /\ failed_count = 0 /\ failed_files = <<>>

NextBatch == DeleteStart \/ DeleteConfirm \/ Mutate

SpecBatch == InitBatch /\ [][NextBatch]_vars

\* search_files: every pairing of the extensions and sizes below with the
\* short listings, and the long listings (around max_pages) with two filters.
ExtPdf == <<"p", "d", "f">>
ExtDotPdf == <<".", "p", "d", "f">>
ExtUpper == <<"P", "D", "F">>
ExtTxt == <<"t", "x", "t">>
ExtHyphen == <<"a", "-", "b", "_", "4">>
ExtTen == <<"a", "b", "c", "d", "e", "f", "i", "m", "o", "p">>
ExtEleven == <<"a", "b", "c", "d", "e", "f", "i", "m", "o", "p", "t">>
ExtDollar == <<"p", "$", "f">>
ExtDash == <<"-">>
ExtDots == <<".", ".">>

SearchExtensions ==
    {<<>>, ExtPdf, ExtDotPdf, ExtUpper, ExtTxt, ExtHyphen, ExtTen, ExtEleven,
     ExtDollar, ExtDash, ExtDots}

SearchSizes ==
    {NoSize, Num(100), Num(1), Num(MaxSizeMB), Num(MaxSizeMB + 1), Num(0),
     Num(-5), NaN, Inf}

ShortListings ==
    {Listing(<<<<RecA, RecB, RecC>>>>, 1, FALSE),
     Listing(<<<<RecA, RecD>>, <<RecE, RecF>>, <<RecG, RecNoId, RecNoName>>>>,
             3, FALSE),
     Listing(<<<<RecD, RecF>>, <<>>, <<RecA>>>>, 3, FALSE),
     Listing(<<<<>>>>, 1, FALSE)}

LongListings ==
    {Listing(<<<<RecA>>>>, max_pages - 1, FALSE),
     Listing(<<<<RecA>>>>, max_pages, FALSE),
     Listing(<<<<RecA>>>>, max_pages + 1, FALSE),
     Listing(<<<<RecD>>>>, 0, TRUE)}

InitSearch ==
    /\ pc = "search_start"
    /\ CoreIdle /\ RetryIdle /\ BatchIdle /\ CmdIdle /\ PathIdle
    /\ \/ /\ extension \in SearchExtensions
          /\ min_size_mb \in SearchSizes
          /\ listing \in ShortListings
       \/ /\ extension = ExtPdf
          /\ min_size_mb \in {NoSize, Num(100)}
          /\ listing \in LongListings
    /\ norm_extension = <<>> /\ results = <<>> /\ page_token = 0
    /\ page_count = 0 /\ found = <<>> /\ warned = FALSE

NextSearch == SearchValidate \/ SearchPage

SpecSearch == InitSearch /\ [][NextSearch]_vars

\* search_files runs on a single thread that is never suspended for good:
\* whenever it has a step to take it takes one.
SpecSearchFair == SpecSearch /\ WF_vars(NextSearch)

\* The commands: list and delete with every combination of their flags, a few
\* filters, two listings and one folder tree (n3 under n2 under the root n1;
\* a second parent on n3).
CmdGraph ==
    [n \in {"n1", "n2", "n3"} |->
        CASE n = "n1" -> Node(<<"r">>, <<>>)
          [] n = "n2" -> Node(<<"a">>, <<"n1">>)
          [] OTHER -> Node(<<"b">>, <<"n2", "n1">>)]

CmdExtensions == {<<>>, ExtDotPdf, ExtDollar}
CmdSizes == {NoSize, Num(100), Num(0), NaN}
CmdListings ==
    {Listing(<<<<RecA, RecB, RecC>>>>, 1, FALSE),
     Listing(<<<<RecD, RecNoName>>, <<RecA>>>>, 2, FALSE)}

InitCmd ==
    /\ pc = "cmd_start"
    /\ CoreIdle /\ RetryIdle
    /\ extension \in CmdExtensions
    /\ min_size_mb \in CmdSizes
    /\ listing \in CmdListings
    /\ norm_extension = <<>> /\ results = <<>> /\ page_token = 0
    /\ page_count = 0 /\ found = <<>> /\ warned = FALSE
    /\ \/ /\ command = "delete"
          /\ force \in BOOLEAN /\ dry_run \in BOOLEAN
          /\ permanent \in BOOLEAN /\ output_json = FALSE
       \/ /\ command = "list"
          /\ force = FALSE /\ dry_run = FALSE /\ permanent = FALSE
          /\ output_json \in BOOLEAN
    /\ files = <<>> /\ move_to_trash = TRUE
    /\ valid_files = <<>> /\ idx = 0 /\ deleted_count = 0
    /\ failed_count = 0 /\ failed_files = <<>>
    /\ graph = CmdGraph /\ path_cache = NoCache /\ stack = <<>>
    /\ parent_path = <<>> /\ todo = <<>> /\ paths = <<>>

NextCmd ==
    \/ CmdValidate
    \/ CmdConfirmPermanent
    \/ CmdAuthenticate
    \/ SearchValidate
    \/ SearchPage
    \/ CmdAfterSearch
    \/ DisplayNext
    \/ PathEnter
    \/ PathFetch
    \/ PathExecute
    \/ PathResume
    \/ CmdAfterDisplay
    \/ DeleteStart
    \/ DeleteConfirm
    \/ Mutate

SpecCmd == InitCmd /\ [][NextCmd]_vars

\* A resolution pass on its own: the annotation loop of a list command over
\* one or two records, on a remote holding a folder tree (n3 and n4 under n2
\* under the root n1, n3 with a second parent) and two folders, n5 and n6,
\* that are each other's first parent; n9 is a folder the remote lacks.
PathGraph ==
    [n \in {"n1", "n2", "n3", "n4", "n5", "n6"} |->
        CASE n = "n1" -> Node(<<"r">>, <<>>)
          [] n = "n2" -> Node(<<"a">>, <<"n1">>)
          [] n = "n3" -> Node(<<"b">>, <<"n2", "n1">>)
          [] n = "n4" -> Node(<<"b">>, <<"n2">>)
          [] n = "n5" -> Node(<<"c">>, <<"n6">>)
          [] OTHER -> Node(<<"d">>, <<"n5">>)]

PathIds == {"n1", "n2", "n3", "n4", "n5", "n9", ""}

\* A record whose first parent is the folder `id`.
Ref(id) == File("fR", <<"r">>, Absent, <<id>>)

PathTodos ==
    {<<Ref(a)>> : a \in PathIds}
        \cup {<<Ref(a), Ref(b)>> : a \in PathIds, b \in PathIds}

InitPath ==
    /\ pc = "display"
    /\ CoreIdle /\ RetryIdle /\ SearchIdle /\ BatchIdle
    /\ command = "list" /\ dry_run = FALSE /\ permanent = FALSE
    /\ output_json = FALSE
    /\ graph = PathGraph /\ path_cache = NoCache /\ stack = <<>>
    /\ parent_path = <<>> /\ paths = <<>>
    /\ todo \in PathTodos

NextPath == DisplayNext \/ PathEnter \/ PathFetch \/ PathExecute \/ PathResume

SpecPath == InitPath /\ [][NextPath]_vars

---------------------------------------------------------------------------
(* Reading the log                                                         *)

MutationOps == {"update", "delete"}
RemoteOps == {"auth", "list", "get", "execute", "update", "delete"}

MutationCalls == {i \in DOMAIN log : log[i].op \in MutationOps}
RemoteCalls == {i \in DOMAIN log : log[i].op \in RemoteOps}
ListCalls == {i \in DOMAIN log : log[i].op = "list"}
SleepsOf(l) == SelectSeq(l, LAMBDA c : c.op = "sleep")
Declined ==
    \E i \in DOMAIN log :
        log[i].op = "confirm" /\ log[i].id \in {"no", "interrupt"}

\* The records of the input list that carry both an identifier and a name,
\* in input order.
ValidRecords[i \in 0..Len(files)] ==
    IF i = 0 THEN <<>>
    ELSE IF files[i].id = "" \/ files[i].name = <<>> THEN ValidRecords[i - 1]
    ELSE Append(ValidRecords[i - 1], files[i])

ValidList == ValidRecords[Len(files)]

\* The calls made for the k-th valid record, and whether the last of them
\* failed: its mutation failed for good.
CallsFor(k) == {i \in MutationCalls : log[i].n = k}
MutationFailed(k) ==
    \E i \in CallsFor(k) :
        /\ log[i].out # Ok
        /\ \A j \in CallsFor(k) : j <= i

\* The names of the valid records whose mutation failed, in input order.
FailedNames[k \in 0..Len(ValidList)] ==
    IF k = 0 THEN <<>>
    ELSE IF MutationFailed(k)
    THEN Append(FailedNames[k - 1], ValidList[k].name)
    ELSE FailedNames[k - 1]

BatchRan ==
    /\ pc = "batch_done"
    /\ ValidList # <<>>
    /\ ~Declined

---------------------------------------------------------------------------
(* Claims                                                                  *)

\* C1: when delete_files completes a confirmed or forced batch, succeeded +
\* failed is the number of valid records, the failed-name list holds exactly
\* the names of the records whose mutation failed, one entry each and in
\* input order, and every valid record was attempted whatever happened to
\* the records before it.
C1_Accounting ==
    BatchRan =>
        LET valid == ValidList
        IN /\ deleted_count + failed_count = Len(valid)
           /\ failed_files = FailedNames[Len(valid)]
           /\ failed_count = Len(failed_files)
           /\ \A k \in 1..Len(valid) : CallsFor(k) # {}

\* C1 witness: a batch of two records completed, the first failed for good
\* and the second was mutated all the same.
C1_Witness ==
    /\ BatchRan
    /\ Len(valid_files) = 2
    /\ MutationFailed(1) /\ ~MutationFailed(2)
    /\ deleted_count = 1 /\ failed_count = 1
    /\ failed_files = <<valid_files[1].name>>

\* C2: with force unset, once the operator declines or interrupts the
\* confirmation no trash update and no permanent delete is ever issued and
\* the outcome is all zero.
C2_Cancelled ==
    (~force /\ Declined) =>
        /\ MutationCalls = {}
        /\ pc = "batch_done"
        /\ deleted_count = 0 /\ failed_count = 0 /\ failed_files = <<>>

\* C2 witness: a batch with valid records was declined.
C2_Witness ==
    /\ ~force /\ Declined
    /\ pc = "batch_done"
    /\ Len(valid_files) = 2

\* C3: a delete command run with --dry-run never issues a trash update or a
\* permanent delete, whatever --force and --permanent are and whatever the
\* search returns.
C3_DryRunSafe ==
    (command = "delete" /\ dry_run) =>
        /\ MutationCalls = {}
        /\ pc \notin {"batch_start", "batch_confirm", "batch_loop",
                      "batch_done"}

\* C3 witness: a forced, permanent dry run found records, displayed them and
\* returned.
C3_Witness ==
    /\ command = "delete" /\ dry_run /\ force /\ permanent
    /\ pc = "cmd_done"
    /\ found # <<>>
    /\ Len(paths) = Len(found)

\* C4: a list or delete command given neither an extension nor a size, or an
\* extension or size that validation rejects, returns without authenticating
\* and without any remote call.
C4_NoFilterGuard ==
    (/\ command # "none"
     /\ \/ extension = <<>> /\ min_size_mb.kind = "none"
        \/ ~validate_extension(extension).ok
        \/ ~validate_size(min_size_mb).ok) =>
        /\ RemoteCalls = {}
        /\ log = <<>>
        /\ pc \in {"cmd_start", "cmd_done"}

\* C4 witness: a command with a valid extension and a rejected size has
\* returned.
C4_Witness ==
    /\ command = "delete"
    /\ extension = ExtDotPdf
    /\ min_size_mb = Num(0)
    /\ pc = "cmd_done"

\* C5: in trash mode (no --permanent) delete_files issues only trash updates,
\* in permanent mode only permanent deletes, and the mode is the same for
\* every record of the batch.
C5_ModeSafe ==
    \A i \in MutationCalls :
        /\ log[i].op = "update" <=> move_to_trash
        /\ log[i].op = "delete" <=> permanent
        /\ move_to_trash = ~permanent

\* C5 witness: a permanent batch of two records completed, both by permanent
\* deletes.
C5_Witness ==
    /\ pc = "batch_done"
    /\ permanent
    /\ Len(valid_files) = 2
    /\ deleted_count + failed_count = 2
    /\ \A i \in MutationCalls : log[i].op = "delete"

\* The extension without its leading dots, as the claims about search read
\* it, and the name endings it selects, case-insensitively.
Stripped(e) ==
    LET dots == {i \in 0..Len(e) : \A j \in 1..i : e[j] = "."}
        lead == CHOOSE i \in dots : \A k \in dots : k <= i
    IN SubSeq(e, lead + 1, Len(e))

HasExtension(name, e) ==
    \E cut \in 0..Len(name) :
        /\ cut + 1 + Len(e) = Len(name)
        /\ name[cut + 1] = "."
        /\ \A j \in 1..Len(e) :
              LowerChar(name[cut + 1 + j]) = LowerChar(e[j])

ValidExtensionInput(e) ==
    LET x == Stripped(e)
    IN /\ x # <<>>
       /\ Len(x) <= 10
       /\ \A j \in 1..Len(x) : x[j] \in Letters \cup Digits \cup {"-", "_"}
       /\ \E j \in 1..Len(x) : x[j] \in Letters \cup Digits

ValidSizeInput(m) == m.kind = "num" /\ 0 < m.val /\ m.val <= 1048576

\* size_bytes < t MB in bytes; every size of the model is below 2048 MB, the
\* largest threshold whose byte count fits in 32-bit integers.
BelowMB(size_bytes, t) == t > 2047 \/ size_bytes < t * 1024 * 1024

InFound(f) == \E i \in DOMAIN found : found[i] = f
InResults(f) == \E i \in DOMAIN results : results[i] = f

\* search_files returned after its last page request succeeded.
SearchCompleted ==
    /\ pc = "search_done"
    /\ log # <<>>
    /\ log[Len(log)].op = "list" /\ log[Len(log)].out = Ok

\* search_files ended on a page request that failed for good.
SearchFailed ==
    /\ pc \in {"search_done", "search_raised"}
    /\ log # <<>>
    /\ log[Len(log)].op = "list" /\ log[Len(log)].out # Ok

\* C6: for a valid extension e and a valid threshold t, search never returns a
\* record whose name does not end, case-insensitively, with "." and e, nor one
\* whose size is present and below t MB in bytes; every returned record has
\* an identifier and a name.
C6_FilterSound ==
    \A i \in DOMAIN found :
        /\ found[i].id # "" /\ found[i].name # <<>>
        /\ ValidExtensionInput(extension) =>
              HasExtension(found[i].name, Stripped(extension))
        /\ ValidSizeInput(min_size_mb) =>
              ~(/\ found[i].size.kind = "num"
                /\ BelowMB(found[i].size.val, min_size_mb.val))

\* C6 witness: extension "pdf", 100 MB, and a listing of a.pdf (200 MB),
\* b.pdf.txt (500 MB) and c.pdf (50 MB): the search returned a.pdf alone.
C6_Witness ==
    /\ SearchCompleted
    /\ extension = ExtPdf /\ min_size_mb = Num(100)
    /\ results = <<RecA, RecB, RecC>>
    /\ found = <<RecA>>

\* C7: once search has its pages, a record without a size (or with a
\* non-numeric one) is left out when a minimum size is given, and is returned
\* when none is given and it has an identifier, a name and the extension
\* asked for.
C7_MissingSize ==
    SearchCompleted =>
        \A i \in DOMAIN results :
            LET f == results[i]
            IN f.size.kind # "num" =>
                  /\ min_size_mb.kind # "none" => ~InFound(f)
                  /\ (/\ min_size_mb.kind = "none"
                      /\ f.id # "" /\ f.name # <<>>
                      /\ HasExtension(f.name, Stripped(extension)))
                        => InFound(f)

\* C7 witness: a size-filtered search fetched a record without a size, left it
\* out and returned another.
C7_Witness ==
    /\ SearchCompleted
    /\ min_size_mb = Num(1)
    /\ InResults(RecD) /\ ~InFound(RecD)
    /\ found # <<>>

\* C8: search_files always returns; when a page request fails for good
\* (terminal failure, retries used up, unexpected exception) it returns the
\* empty sequence, also after pages that were fetched.
C8_NeverRaises ==
    /\ pc # "search_raised"
    /\ SearchFailed => pc = "search_done" /\ found = <<>>

\* C8 witness: the first page was fetched, the request of the second failed
\* with an exception that is no HttpError, and the search returned nothing.
C8_Witness ==
    /\ SearchFailed
    /\ log[Len(log)].out.kind = "exc"
    /\ page_count >= 1 /\ results # <<>>
    /\ pc = "search_done" /\ found = <<>>

\* C9: with an invalid extension, or a minimum size outside
\* 0 < size <= 1048576, search returns the empty sequence and issues no
\* listing call.
C9_InvalidInputShortCircuits ==
    (\/ extension # <<>> /\ ~ValidExtensionInput(extension)
     \/ min_size_mb.kind # "none" /\ ~ValidSizeInput(min_size_mb)) =>
        /\ ListCalls = {}
        /\ pc = "search_done" => found = <<>>

\* The outcomes the claims about retry_api_call call retryable: the five
\* status codes, and a timeout (an exception whose text holds "timeout").
RetryableOutcomes ==
    {Http(429), Http(500), Http(502), Http(503), Http(504), Exc(MsgTimeout)}

\* The wrapped call fails with a retryable outcome n times and then succeeds.
FailsThenSucceeds(n) ==
    /\ n <= Len(script)
    /\ \A i \in 1..n : script[i] \in RetryableOutcomes
    /\ n < Len(script) => script[n + 1] = Ok

Doubling(sleeps) ==
    \A i \in 1..(Len(sleeps) - 1) : sleeps[i + 1].n >= 2 * sleeps[i].n

TerminalOutcomes ==
    {Http(400), Http(401), Http(403), Http(404), Exc(MsgBoom)}

CallsOf(l) == SelectSeq(l, LAMBDA c : c.op = "call")

\* C11: when the first invocation of the wrapped call fails with a terminal
\* outcome, retry_api_call invokes the call exactly once, never sleeps, and
\* raises that failure.
C11_TerminalFailure ==
    (script # <<>> /\ script[1] \in TerminalOutcomes) =>
        /\ Len(SleepsOf(log)) = 0
        /\ Len(CallsOf(log)) <= 1
        /\ pc = "retry_done" =>
              /\ ret = [kind |-> "raise", out |-> script[1]]
              /\ log = <<Call("call", "", 0, script[1])>>

\* C11 witness: the call failed with a 404 (and would have succeeded next);
\* retry_api_call raised it after one invocation.
C11_Witness ==
    /\ pc = "retry_done"
    /\ script = <<Http(404), Ok>>
    /\ ret = [kind |-> "raise", out |-> Http(404)]
    /\ Len(log) = 1

\* base * 2^k, the sleep the claims expect after failed attempt k.
Backoff(base, k) == base * 2^k

\* C20: whatever the wrapped call does, retry_api_call invokes it at most
\* max_retries times and sleeps at most max_retries - 1 times; the sleep
\* after failed attempt k lasts backoff_factor * 2^k; a sleep is always
\* followed by another invocation before retry_api_call ends; and when every
\* attempt fails with a retryable outcome the failure of the last attempt is
\* raised as it is, with no sleep after it.
C20_RetryCeiling ==
    /\ Len(CallsOf(log)) <= 3
    /\ Len(SleepsOf(log)) <= 3 - 1
    /\ \A i \in DOMAIN log :
          log[i].op = "sleep" =>
              /\ i > 1 /\ log[i - 1].op = "call" /\ log[i - 1].out # Ok
              /\ log[i].n = Backoff(1, log[i - 1].n)
              /\ i < Len(log) => log[i + 1].op = "call"
    /\ \A i \in DOMAIN log :
          log[i].op = "call" => log[i].n = Len(CallsOf(SubSeq(log, 1, i))) - 1
    /\ pc = "retry_done" =>
          /\ log[Len(log)].op = "call"
          /\ ret.out = log[Len(log)].out
          /\ (/\ Len(script) >= 3
              /\ \A i \in 1..3 : script[i] \in RetryableOutcomes) =>
                /\ ret = [kind |-> "raise", out |-> script[3]]
                /\ Len(CallsOf(log)) = 3
                /\ Len(SleepsOf(log)) = 2

\* C20 witness: three retryable failures in a row (503, timeout, 429); the
\* 429 of the third attempt was raised after sleeps of 1 and 2 seconds.
C20_Witness ==
    /\ pc = "retry_done"
    /\ script = <<Http(503), Exc(MsgTimeout), Http(429)>>
    /\ ret = [kind |-> "raise", out |-> Http(429)]
    /\ log = <<Call("call", "", 0, Http(503)), Call("sleep", "", 1, Ok),
               Call("call", "", 1, Exc(MsgTimeout)), Call("sleep", "", 2, Ok),
               Call("call", "", 2, Http(429))>>

\* The mutation calls of the log, in the order they were issued.
MutationLog == SelectSeq(log, LAMBDA c : c.op \in MutationOps)

\* C15: delete_files mutates the valid records one at a time in input order:
\* the calls for a record (its attempts and the sleeps between them) all come
\* before the first call for the next record, the k-th group of calls targets
\* the k-th valid record, no record is skipped, and the failed names are in
\* input order.
C15_InputOrder ==
    /\ \A i \in DOMAIN MutationLog :
          /\ MutationLog[i].n \in 1..Len(ValidList)
          /\ MutationLog[i].id = ValidList[MutationLog[i].n].id
          /\ i = 1 => MutationLog[i].n = 1
          /\ i > 1 =>
                \/ MutationLog[i].n = MutationLog[i - 1].n
                \/ MutationLog[i].n = MutationLog[i - 1].n + 1
    /\ \A i \in DOMAIN log :
          log[i].op = "sleep" =>
              /\ i > 1 /\ log[i - 1].op \in MutationOps
              /\ i < Len(log) =>
                    /\ log[i + 1].op \in MutationOps
                    /\ log[i + 1].n = log[i - 1].n
    /\ pc = "batch_loop" => failed_files = FailedNames[idx - 1]
    /\ BatchRan => failed_files = FailedNames[Len(ValidList)]

\* C15 witness: two different records; the first was retried after a 503 and
\* a sleep and then failed for good, the second was mutated after it.
C15_Witness ==
    /\ pc = "batch_done"
    /\ files = <<RecC, RecA>>
    /\ Len(MutationLog) = 3
    /\ MutationLog[1].id = "fC" /\ MutationLog[1].out = Http(503)
    /\ MutationLog[2].id = "fC" /\ MutationLog[2].out = Http(404)
    /\ MutationLog[3].id = "fA" /\ MutationLog[3].out = Ok
    /\ log[2].op = "sleep"
    /\ failed_files = <<NameCPdf>>

\* C16: when the input list is empty or holds no record with both an
\* identifier and a name, delete_files returns without asking for
\* confirmation and without any remote call, its counters all zero; and in
\* every batch no mutation call targets a record lacking an identifier or a
\* name.
C16_NothingValid ==
    /\ (\A k \in DOMAIN files : files[k].id = "" \/ files[k].name = <<>>) =>
          /\ log = <<>>
          /\ pc \in {"batch_start", "batch_done"}
          /\ deleted_count = 0 /\ failed_count = 0 /\ failed_files = <<>>
    /\ \A i \in MutationCalls :
          /\ log[i].id # ""
          /\ \A k \in DOMAIN files :
                files[k].id = log[i].id => files[k].name # <<>>
    /\ pc = "batch_done" =>
          Cardinality({log[i].n : i \in MutationCalls}) \in {0, Len(ValidList)}

\* C16 witness: a list of two records, one without an identifier and one
\* without a name, given without force: delete_files returned at once.
C16_Witness ==
    /\ pc = "batch_done"
    /\ files = <<RecNoId, RecNoName>>
    /\ ~force
    /\ log = <<>>
    /\ deleted_count = 0 /\ failed_count = 0

\* The pages the claims expect search to consume: it follows the tokens up
\* to the page without one, or up to 100 pages.
PagesToRead ==
    IF listing.endless \/ listing.total > 100 THEN 100 ELSE listing.total

\* The records of the first k pages of the remote listing, in remote order.
FirstPages[k \in 0..100] ==
    IF k = 0 THEN <<>> ELSE FirstPages[k - 1] \o PageFiles(listing, k)

NoRequestFailed == \A i \in DOMAIN log : log[i].out = Ok

\* C18: when no page request fails, the result of search is the
\* concatenation of every page up to the one without a continuation token
\* (or of 100 pages), in remote order, put through the post-filter; an empty
\* page that carries a token does not end the search.
C18_AllPagesInOrder ==
    (SearchCompleted /\ NoRequestFailed) =>
        /\ results = FirstPages[PagesToRead]
        /\ found = PostFilter(FirstPages[PagesToRead], norm_extension,
                              min_size_mb)

\* C19: search consumes at most 100 pages and issues at most 100 successful
\* page requests; when it has consumed 100 pages it stops, warns and returns
\* the post-filtered records of those pages; and it always ends by
\* returning, also on a listing that carries a token forever.
C19_Ceiling ==
    /\ [](/\ page_count <= 100
          /\ Cardinality({i \in ListCalls : log[i].out = Ok}) <= 100
          /\ Len(SleepsOf(log)) <= 2 * Cardinality(ListCalls)
          /\ page_count = 100 =>
                /\ pc = "search_done"
                /\ warned
                /\ results = FirstPages[100]
                /\ found = PostFilter(FirstPages[100], norm_extension,
                                      min_size_mb))
    /\ <>(pc = "search_done")

\* C19 witness: on the endless listing of d.PDF, with extension "pdf" and no
\* size filter, search stopped after 100 pages and returned 100 records with
\* the warning.
C19_Witness ==
    /\ pc = "search_done"
    /\ listing.endless
    /\ min_size_mb = NoSize
    /\ page_count = 100
    /\ Len(found) = 100
    /\ warned

\* The calls of get_folder_path made by the annotation loop, as positions in
\* the log: the k-th call starts at ResolveAt[k] and its remote calls lie
\* between that position and SegEnd(k).
ResolveAt ==
    SelectSeq([i \in 1..Len(log) |-> i], LAMBDA i : log[i].op = "resolve")

SegEnd(k) == IF k < Len(ResolveAt) THEN ResolveAt[k + 1] - 1 ELSE Len(log)

ResolvedId(k) == log[ResolveAt[k]].id

RemoteIn(k) ==
    {i \in (ResolveAt[k] + 1)..SegEnd(k) : log[i].op \in {"get", "execute"}}

\* The number of calls of get_folder_path that have returned.
Returned ==
    IF pc \in {"display", "display_done"} THEN Len(ResolveAt)
    ELSE Len(ResolveAt) - 1

\* C12: a second call of get_folder_path with the same node id and the same
\* cache returns the string the first call returned and makes no remote
\* call, whatever the remote did during the first call.
C12_Idempotent ==
    \A k \in 1..(Returned - 1) :
        ResolvedId(k) = ResolvedId(k + 1) =>
            /\ paths[k + 1] = paths[k]
            /\ RemoteIn(k + 1) = {}

\* The first-parent chain of a node ends at a node without parents within
\* `fuel` steps.
RECURSIVE Rooted(_, _)
Rooted(id, fuel) ==
    /\ id \in DOMAIN graph
    /\ \/ graph[id].parents = <<>>
       \/ fuel > 0 /\ Rooted(graph[id].parents[1], fuel - 1)

\* The path the claims expect for a node: "/" without parents, "/" + name
\* under a parent whose path is "/", else the parent's path + "/" + name.
RECURSIVE FirstParentPath(_)
FirstParentPath(id) ==
    IF graph[id].parents = <<>> THEN <<"/">>
    ELSE LET up == FirstParentPath(graph[id].parents[1])
         IN IF up = <<"/">> THEN <<"/">> \o graph[id].name
            ELSE up \o <<"/">> \o graph[id].name

\* C13: in a pass without a failed fetch, get_folder_path returns the path
\* built along the first parents of the node; two nodes of the same name
\* and the same first parent get the same path, whatever their other
\* parents are.
C13_PathConstruction ==
    NoRequestFailed =>
        /\ \A k \in 1..Returned :
              Rooted(ResolvedId(k), 3) =>
                  paths[k] = FirstParentPath(ResolvedId(k))
        /\ \A k \in 1..Returned : \A j \in 1..Returned :
              LET a == ResolvedId(k)
                  b == ResolvedId(j)
              IN (/\ Rooted(a, 3) /\ Rooted(b, 3)
                  /\ graph[a].parents # <<>> /\ graph[b].parents # <<>>
                  /\ graph[a].name = graph[b].name
                  /\ graph[a].parents[1] = graph[b].parents[1])
                    => paths[k] = paths[j]

\* C13 witness: n3 (parents n2 and n1), then n4 (same name, parent n2 alone)
\* were resolved without a failure: twice "/a/b", with n1 cached as "/" and
\* n2 as "/a".
C13_Witness ==
    /\ pc = "display_done"
    /\ NoRequestFailed
    /\ Returned = 2
    /\ ResolvedId(1) = "n3" /\ ResolvedId(2) = "n4"
    /\ paths = <<<<"/", "a", "/", "b">>, <<"/", "a", "/", "b">>>>
    /\ path_cache["n1"] = <<"/">> /\ path_cache["n2"] = <<"/", "a">>

\* The successful execute() calls of the k-th call, outermost node first,
\* and whether that call ended on a remote failure.
OkExecutes(k) ==
    SelectSeq([i \in 1..(SegEnd(k) - ResolveAt[k]) |-> ResolveAt[k] + i],
              LAMBDA i : log[i].op = "execute" /\ log[i].out = Ok)

EndedOnFailure(k) ==
    /\ SegEnd(k) > ResolveAt[k]
    /\ log[SegEnd(k)].out # Ok

\* C14: get_folder_path never raises; each call returns a string that
\* begins with "/"; when the fetch of the node itself fails for good the
\* result is "/Unknown", and when the fetch of an ancestor fails the result
\* is "/Unknown" followed by the names from below that ancestor down to the
\* node.
C14_NeverFailsOutward ==
    /\ pc # "path_raised"
    /\ \A k \in 1..Returned :
          /\ paths[k] # <<>> /\ paths[k][1] = "/"
          /\ EndedOnFailure(k) =>
                LET ok == OkExecutes(k)
                    n == Len(ok)
                    below[j \in 0..n] ==
                        IF j = 0 THEN <<"/", "U", "n", "k", "n", "o", "w", "n">>
                        ELSE below[j - 1] \o <<"/">>
                                 \o graph[log[ok[n + 1 - j]].id].name
                IN /\ paths[k] = below[n]
                   /\ n = 0 => paths[k] = UnknownPath
                   /\ n > 0 => SubSeq(paths[k], 1, 9) = UnknownPath \o <<"/">>

\* C14 witness: resolving n3, the fetches of n3 and n2 succeeded and the
\* request for n1 failed with an exception: the result is "/Unknown/a/b".
C14_Witness ==
    /\ pc \in {"display", "display_done"}
    /\ Returned >= 1
    /\ ResolvedId(1) = "n3"
    /\ EndedOnFailure(1)
    /\ log[SegEnd(1)].id = "n1" /\ log[SegEnd(1)].out.kind = "exc"
    /\ paths[1] = <<"/", "U", "n", "k", "n", "o", "w", "n", "/", "a", "/", "b">>

\* C17: once a node id is in the cache of a resolution pass, its entry stays
\* and its value never changes.
C17_CacheStable ==
    [][\A n \in DOMAIN path_cache :
          /\ n \in DOMAIN path_cache'
          /\ path_cache'[n] = path_cache[n]]_vars

\* Every failure in the log is a retryable failure of a node fetch, and no
\* node's fetch failed max_retries times.
OnlyRetryableFetchFailures ==
    /\ \A i \in DOMAIN log :
          log[i].out # Ok =>
              /\ log[i].op \in {"get", "execute"}
              /\ log[i].out \in RetryableOutcomes
    /\ \A i \in DOMAIN log :
          Cardinality({j \in DOMAIN log :
                          log[j].out # Ok /\ log[j].id = log[i].id}) < 3

\* C21: when the fetches of a pass fail only with retryable failures, fewer
\* than max_retries times per node, get_folder_path retries them (the round
\* trip of execute() included) and returns the real path of the node, not a
\* path built on "/Unknown".
C21_FetchRetried ==
    OnlyRetryableFetchFailures =>
        \A k \in 1..Returned :
            Rooted(ResolvedId(k), 3) =>
                paths[k] = FirstParentPath(ResolvedId(k))

\* The round trips that performed a request on the remote: the successful
\* execute() calls of the log.
PerformedOnRemote ==
    {i \in DOMAIN log : log[i].op = "execute" /\ log[i].out = Ok}

\* C22: after a batch, the number of records counted as succeeded is the
\* number of mutations performed on the remote.
C22_SucceededMeansMutated ==
    pc = "batch_done" => deleted_count = Cardinality(PerformedOnRemote)

\* The successful fetches of node `id` during the k-th call of
\* get_folder_path.
FetchesOf(k, id) ==
    {i \in RemoteIn(k) :
        log[i].op = "execute" /\ log[i].out = Ok /\ log[i].id = id}

BuiltOnUnknown(path) ==
    /\ Len(path) >= 8
    /\ SubSeq(path, 1, 8) = <<"/", "U", "n", "k", "n", "o", "w", "n">>

\* C24: every entry of the cache is the true first-parent path of its node
\* in the remote graph, also after failed fetches, and no path built on
\* "/Unknown" is ever stored.
C24_CacheCorrect ==
    \A n \in DOMAIN path_cache :
        /\ ~BuiltOnUnknown(path_cache[n])
        /\ Rooted(n, 3) => path_cache[n] = FirstParentPath(n)

\* The page of the last request, and whether the remote offered a
\* continuation token with it.
LastPageAsked == log[Len(log)].n

StillOffered == NextPageToken(listing, LastPageAsked) # 0

\* C25: search prints the page-limit warning exactly when it stopped paging
\* while the remote still offered a continuation token; after exactly 100
\* pages, the last without a token, it does not.
C25_WarningAccurate ==
    SearchCompleted => (warned <=> StillOffered)

=============================================================================
